---- MODULE Spec2Model ----
(***************************************************************************)
(* The AprilTag pipeline of the vision coprocessor: the capture/consumer   *)
(* loop of __init__.py, the worker thread of AprilTagWorker.py, the two    *)
(* queue.Queue(maxsize=1) channels between them, and the pose routines the *)
(* worker calls (CameraPoseEstimator, PoseEstimator, TagAngleCalculator).  *)
(***************************************************************************)
EXTENDS Integers, Sequences, FiniteSets, TLC

\* ------------------------------------------------------------------ bounds
\* time.time() readings of the capture loop: 1..MaxTime
MaxTime == 3
\* field marker ids are 1..MaxFieldId
MaxFieldId == 2
\* markers the detector reports in one frame
MaxTags == 2
\* reprojection errors are 0..MaxErr
MaxErr == 1
\* stream clients attached to the overlay server
MaxClients == 1
\* translation components are -MaxCoord..MaxCoord
MaxCoord == 2
\* the numeric camera settings are 0..MaxSetting
MaxSetting == 1

\* ------------------------------------------------------------------ values
\* Python's None. Every optional value of the model is a record, so that it
\* can be compared with None.
None == [none |-> TRUE]

DEMO_ID == 42

\* A Python int object (the module constant DEMO_ID).
PyInt(n) == [val |-> n, obj |-> "int"]
\* id[0] of the detector's ids array: a numpy integer scalar object.
NumpyInt(n) == [val |-> n, obj |-> "numpy"]
\* a == b on integer objects: by value.
PyEq(a, b) == a.val = b.val
\* a is b: the same object. A numpy scalar is never the int object DEMO_ID.
PyIs(a, b) == a.obj = b.obj /\ a.obj = "int" /\ a.val = b.val

FieldTagIds == 1..MaxFieldId
ObservedIds == FieldTagIds \cup {DEMO_ID}

\* all sequences over S of length at most n
SeqsUpTo(S, n) == UNION {[1..k -> S] : k \in 0..n}

RECURSIVE SelectObs(_, _, _)
\* [x for x in xs if keep[x]] with keep given as the set of kept positions
SelectObs(xs, kept, i) ==
    IF i > Len(xs) THEN <<>>
    ELSE (IF i \in kept THEN <<xs[i]>> ELSE <<>>) \o SelectObs(xs, kept, i + 1)

\* a function's result: returned value or raised exception
Returned(v) == [raised |-> FALSE, value |-> v]
Raised == [raised |-> TRUE]

\* ------------------------------------------------------------------ detector
\* ArucoFiducialDetector.detect_fiducials: one FiducialFrameObservation per
\* detected marker; ids is what cv.aruco.detectMarkers reports for the frame,
\* a marker's corners are named by its position in the detection.
detect_fiducials(ids) ==
    IF Len(ids) = 0 THEN <<>>
    ELSE [i \in 1..Len(ids) |-> [tag_id |-> NumpyInt(ids[i]), corners |-> i]]

\* ------------------------------------------------------------------ solver
\* One solution of cv.solvePnPGeneric is (rvec, tvec) and its reprojection
\* error. The solutions of a run that did not raise: ordered, at most two for
\* SOLVEPNP_IPPE_SQUARE, at most one for SOLVEPNP_SQPNP; solution k carries
\* its own tvec.
IppeResults ==
    {Returned(<<>>)} \cup
    {Returned(<<[tvec |-> <<0, 0, 1>>, err |-> [e |-> a]]>>) : a \in 0..MaxErr} \cup
    {Returned(<<[tvec |-> <<0, 0, 1>>, err |-> [e |-> a]],
                [tvec |-> <<1, 0, 1>>, err |-> [e |-> b]]>>) : a \in 0..MaxErr, b \in 0..MaxErr}
    \cup {Raised}
SqpnpResults ==
    {Returned(<<>>)} \cup
    {Returned(<<[tvec |-> <<0, 0, 1>>, err |-> [e |-> a]]>>) : a \in 0..MaxErr}
    \cup {Raised}

\* cv.solvePnPGeneric(object_points, frame_points, ...): raises on an empty or
\* mismatched point set; otherwise what the library computes (outcome).
solvePnPGeneric(object_points, frame_points, outcome) ==
    IF Len(frame_points) = 0 \/ Len(object_points) # Len(frame_points)
    THEN Raised
    ELSE outcome

\* A translation is (x, y, z), a tuple of three numbers.
\* opencv_pose_to_wpilib, the translation (line 10):
\* Translation3d(tvec[2][0], -tvec[0][0], -tvec[1][0])
opencv_translation_to_wpilib(tvec) == <<tvec[3], -tvec[1], -tvec[2]>>

\* opencv_pose_to_wpilib(tvecs[k], rvecs[k]) of a solution
opencv_pose_to_wpilib(sol) == [wpilib |-> opencv_translation_to_wpilib(sol.tvec)]

\* the back conversion with the sign of the first component lost
wpilib_translation_to_opencv_unsigned(translation) ==
    <<translation[2], -translation[3], translation[1]>>

\* wpilib_translation_to_opencv (line 18): [-Y, -Z, X]
wpilib_translation_to_opencv(translation) ==
    <<-translation[2], -translation[3], translation[1]>>

\* Translation3d.norm(), by its square
Norm(translation) ==
    [norm_sq |-> translation[1] * translation[1] + translation[2] * translation[2]
                 + translation[3] * translation[3]]

\* the four image points of one observation: observation.corners[0][k]
CornerPoints(observation) == [k \in 1..4 |-> [corners |-> observation.corners, k |-> k]]
\* the canonical square template (+-fid_size/2, +-fid_size/2, 0)
SquareTemplate == [k \in 1..4 |-> [template |-> k]]
\* the four field-frame corners of a marker at tag_pose, in the vision convention
FieldCorners(tag_pose) == [k \in 1..4 |-> [field |-> tag_pose, k |-> k]]

\* ------------------------------------------------------------------ PoseEstimator
\* solve_fiducial_pose without the try around the construction of the result
solve_fiducial_pose_unguarded(frame_observation, env) ==
    LET r == solvePnPGeneric(SquareTemplate, CornerPoints(frame_observation),
                             env.ippe[frame_observation.corners])
    IN  IF r.raised THEN Returned(None)
        ELSE IF Len(r.value) < 2 THEN Raised
        ELSE Returned([tag_id  |-> frame_observation.tag_id,
                       pose_0  |-> opencv_pose_to_wpilib(r.value[1]),
                       error_0 |-> r.value[1].err,
                       pose_1  |-> opencv_pose_to_wpilib(r.value[2]),
                       error_1 |-> r.value[2].err])

\* SquareTargetPoseEstimator.solve_fiducial_pose. env.ippe[c] is what the
\* library computes for the corners c.
solve_fiducial_pose(frame_observation, env) ==
    LET r == solvePnPGeneric(SquareTemplate, CornerPoints(frame_observation),
                             env.ippe[frame_observation.corners])
    IN  IF r.raised THEN Returned(None)
        ELSE IF Len(r.value) < 2 THEN Returned(None)
        ELSE Returned([tag_id  |-> frame_observation.tag_id,
                       pose_0  |-> opencv_pose_to_wpilib(r.value[1]),
                       error_0 |-> r.value[1].err,
                       pose_1  |-> opencv_pose_to_wpilib(r.value[2]),
                       error_1 |-> r.value[2].err])

\* ------------------------------------------------------------------ TagAngleCalculator
\* calculate_tag_angles giving the angles without a distance when the planar
\* solve fails
calculate_tag_angles_partial(frame_observation, env) ==
    IF ~env.undistort[frame_observation.corners] THEN Raised
    ELSE LET pose_observation == solve_fiducial_pose(frame_observation, env).value
         IN  Returned([tag_id   |-> frame_observation.tag_id,
                       corners  |-> [angles |-> frame_observation.corners],
                       distance |-> IF pose_observation = None THEN None
                                    ELSE IF pose_observation.error_0.e < pose_observation.error_1.e
                                    THEN Norm(pose_observation.pose_0.wpilib)
                                    ELSE Norm(pose_observation.pose_1.wpilib)])

\* calculate_tag_angles with the comparison of the two errors turned round
calculate_tag_angles_larger(frame_observation, env) ==
    IF ~env.undistort[frame_observation.corners] THEN Raised
    ELSE LET pose_observation == solve_fiducial_pose(frame_observation, env).value
         IN  IF pose_observation = None THEN Returned(None)
             ELSE Returned([tag_id   |-> frame_observation.tag_id,
                            corners  |-> [angles |-> frame_observation.corners],
                            distance |-> IF pose_observation.error_0.e > pose_observation.error_1.e
                                         THEN Norm(pose_observation.pose_0.wpilib)
                                         ELSE Norm(pose_observation.pose_1.wpilib)])

\* CameraMatrixTagAngleCalculator.calculate_tag_angles. env.undistort[c] says
\* whether cv.undistortPoints and np.linalg.inv succeed on the corners c.
calculate_tag_angles(frame_observation, env) ==
    IF ~env.undistort[frame_observation.corners] THEN Raised
    ELSE LET pose_observation == solve_fiducial_pose(frame_observation, env).value
         IN  IF pose_observation = None THEN Returned(None)
             ELSE Returned([tag_id   |-> frame_observation.tag_id,
                            corners  |-> [angles |-> frame_observation.corners],
                            distance |-> IF pose_observation.error_0.e < pose_observation.error_1.e
                                         THEN Norm(pose_observation.pose_0.wpilib)
                                         ELSE Norm(pose_observation.pose_1.wpilib)])

\* ------------------------------------------------------------------ CameraPoseEstimator
EmptyPoints == [object_points |-> <<>>, frame_points |-> <<>>, tag_ids |-> <<>>, tag_poses |-> <<>>]

RECURSIVE LayoutLoop(_, _, _, _, _)
\* the loop over tag_layout["tags"] for one observation (lines 65-109): the
\* test of tag_pose is inside the loop, so the observation is added once for
\* every layout entry from its own entry to the last.
LayoutLoop(tags, j, observation, tag_pose, acc) ==
    IF j > Len(tags) THEN acc
    ELSE LET tag_data == tags[j]
             pose == IF tag_data.ID = observation.tag_id.val THEN tag_data.pose ELSE tag_pose
             acc2 == IF pose # None
                     THEN [object_points |-> acc.object_points \o FieldCorners(pose),
                           frame_points  |-> acc.frame_points \o CornerPoints(observation),
                           tag_ids       |-> Append(acc.tag_ids, observation.tag_id),
                           tag_poses     |-> Append(acc.tag_poses, pose)]
                     ELSE acc
         IN  LayoutLoop(tags, j + 1, observation, pose, acc2)

\* the single-tag branch (lines 112-144): the solutions are read outside the try
SingleTagBranch(acc, observation, env) ==
    LET r == solvePnPGeneric(SquareTemplate, acc.frame_points, env.ippe[observation.corners])
    IN  IF r.raised THEN Returned(None)
        ELSE IF Len(r.value) < 2 THEN Raised
        ELSE Returned([tag_ids |-> acc.tag_ids,
                       pose_0  |-> [field_to_tag |-> acc.tag_poses[1],
                                    camera_to_tag |-> opencv_pose_to_wpilib(r.value[1])],
                       error_0 |-> r.value[1].err,
                       pose_1  |-> [field_to_tag |-> acc.tag_poses[1],
                                    camera_to_tag |-> opencv_pose_to_wpilib(r.value[2])],
                       error_1 |-> r.value[2].err])

\* the multi-tag branch without its try/except
MultiTagBranch_nocatch(acc, env) ==
    LET r == solvePnPGeneric(acc.object_points, acc.frame_points, env.sqpnp)
    IN  IF r.raised THEN Raised
        ELSE IF Len(r.value) < 1 THEN Raised
        ELSE Returned([tag_ids |-> acc.tag_ids,
                       pose_0  |-> [camera_to_field |-> opencv_pose_to_wpilib(r.value[1])],
                       error_0 |-> r.value[1].err,
                       pose_1  |-> None,
                       error_1 |-> None])

\* the multi-tag branch (lines 147-167): tvecs[0] is read outside the try
MultiTagBranch(acc, env) ==
    LET r == solvePnPGeneric(acc.object_points, acc.frame_points, env.sqpnp)
    IN  IF r.raised THEN Returned(None)
        ELSE IF Len(r.value) < 1 THEN Raised
        ELSE Returned([tag_ids |-> acc.tag_ids,
                       pose_0  |-> [camera_to_field |-> opencv_pose_to_wpilib(r.value[1])],
                       error_0 |-> r.value[1].err,
                       pose_1  |-> None,
                       error_1 |-> None])

\* MultiTargetCameraPoseEstimator.solve_camera_pose. The branch on
\* len(tag_ids) is inside the loop over the observations and both of its arms
\* return, so the loop body runs for frame_observations[0] only.
solve_camera_pose(frame_observations, config_store, env) ==
    IF config_store.remote_config.tag_layout = None THEN Returned(None)
    ELSE IF Len(frame_observations) = 0 THEN Returned(None)
    ELSE LET observation == frame_observations[1]
             acc == LayoutLoop(config_store.remote_config.tag_layout.tags, 1,
                               observation, None, EmptyPoints)
         IN  IF Len(acc.tag_ids) = 1
             THEN SingleTagBranch(acc, observation, env)
             ELSE MultiTagBranch(acc, env)

\* ------------------------------------------------------------------ worker iteration
\* positions of the observations with `x.tag_id is not DEMO_ID`
NotDemoPositions(frame_observations) ==
    {i \in 1..Len(frame_observations) : ~PyIs(frame_observations[i].tag_id, PyInt(DEMO_ID))}
\* positions of the observations with `x.tag_id == DEMO_ID`
DemoPositions(frame_observations) ==
    {i \in 1..Len(frame_observations) : PyEq(frame_observations[i].tag_id, PyInt(DEMO_ID))}

RECURSIVE MapAngles(_, _, _)
\* [calculate_tag_angles(x, config) for x in xs]: Raised if a call raises
MapAngles(xs, env, i) ==
    IF i > Len(xs) THEN Returned(<<>>)
    ELSE LET r == calculate_tag_angles(xs[i], env)
         IN  IF r.raised THEN Raised
             ELSE LET rest == MapAngles(xs, env, i + 1)
                  IN  IF rest.raised THEN Raised
                      ELSE Returned(<<r.value>> \o rest.value)

\* [x for x in xs if x != None]
DropNone(xs) == SelectSeq(xs, LAMBDA x : x # None)

\* The calls one pass of the worker loop makes (lines 41-55): the arguments of
\* solve_camera_pose, of calculate_tag_angles and of solve_fiducial_pose.
WorkerCalls(ids) ==
    LET frame_observations == detect_fiducials(ids)
        demo_frame_observations == SelectObs(frame_observations, DemoPositions(frame_observations), 1)
    IN  [pose_args  |-> SelectObs(frame_observations, NotDemoPositions(frame_observations), 1),
         angle_args |-> SelectObs(frame_observations, NotDemoPositions(frame_observations), 1),
         demo_args  |-> IF Len(demo_frame_observations) > 0
                        THEN <<demo_frame_observations[1]>> ELSE <<>>]

\* the worker pass with `if len(demo_frame_observations) > 0` left out:
\* demo_frame_observations[0] raises IndexError on a frame without the demo marker
WorkerProcess_demo_unguarded(timestamp, frame, config_store, ids, env) ==
    LET frame_observations == detect_fiducials(ids)
        calls  == WorkerCalls(ids)
        camera == solve_camera_pose(calls.pose_args, config_store, env)
        angles == MapAngles(calls.angle_args, env, 1)
    IN  IF camera.raised \/ angles.raised \/ Len(calls.demo_args) = 0 THEN Raised
        ELSE Returned([timestamp |-> timestamp,
                       frame |-> frame,
                       frame_observations |-> frame_observations,
                       camera_pose_observation |-> camera.value,
                       tag_angle_observations |-> DropNone(angles.value),
                       demo_pose_observation |-> solve_fiducial_pose(calls.demo_args[1], env).value])

\* One pass of the worker loop from the detection to the bundle (lines 41-59):
\* the tuple it puts on q_out, or Raised when a call raises. `frame` is the
\* frame the tuple was computed from.
WorkerProcess(timestamp, frame, config_store, ids, env) ==
    LET frame_observations == detect_fiducials(ids)
        calls  == WorkerCalls(ids)
        camera == solve_camera_pose(calls.pose_args, config_store, env)
        angles == MapAngles(calls.angle_args, env, 1)
        demo   == IF Len(calls.demo_args) > 0
                  THEN solve_fiducial_pose(calls.demo_args[1], env).value
                  ELSE None
    IN  IF camera.raised \/ angles.raised THEN Raised
        ELSE Returned([timestamp |-> timestamp,
                       frame |-> frame,
                       frame_observations |-> frame_observations,
                       camera_pose_observation |-> camera.value,
                       tag_angle_observations |-> DropNone(angles.value),
                       demo_pose_observation |-> demo])

\* ------------------------------------------------------------------ inputs
\* a field layout: None, or {"tags": [{"ID": .., "pose": ..}, ..]} with
\* distinct ids
TagLayouts ==
    {[tags |-> [j \in 1..Len(t) |-> [ID |-> t[j], pose |-> [field_pose |-> t[j]]]]] :
        t \in {u \in SeqsUpTo(FieldTagIds, MaxFieldId) :
                  \A a, b \in 1..Len(u) : a # b => u[a] # u[b]}}
Layouts == {None} \cup TagLayouts

ConfigWith(has_calibration, apriltags_enable, tag_layout) ==
    [local_config  |-> [has_calibration |-> has_calibration, apriltags_enable |-> apriltags_enable],
     remote_config |-> [tag_layout |-> tag_layout]]

\* what the libraries do with one marker of a frame: both planar solutions
\* found, one solution found, the solver raising, the undistortion raising
TagFates == {"solved", "one_solution", "unsolved", "fault"}
TwoSolutions == Returned(<<[tvec |-> <<0, 0, 1>>, err |-> [e |-> 0]],
                           [tvec |-> <<1, 0, 1>>, err |-> [e |-> MaxErr]]>>)
OneSolution == Returned(<<[tvec |-> <<0, 0, 1>>, err |-> [e |-> 0]]>>)
FateIppe(fate) ==
    CASE fate = "unsolved" -> Raised
      [] fate = "one_solution" -> OneSolution
      [] OTHER -> TwoSolutions
\* a scene: the ids the detector reports for a frame and what the libraries
\* compute on it
Scenes ==
    UNION {[ids : {i}, fate : [1..Len(i) -> TagFates], sqpnp : {OneSolution, Returned(<<>>), Raised}] :
              i \in SeqsUpTo(ObservedIds, MaxTags)}
EnvOf(scene) ==
    [ippe      |-> [c \in 1..Len(scene.ids) |-> FateIppe(scene.fate[c])],
     undistort |-> [c \in 1..Len(scene.ids) |-> scene.fate[c] # "fault"],
     sqpnp     |-> scene.sqpnp]

\* ------------------------------------------------------------------ channels
\* queue.Queue(maxsize=1): apriltag_worker_in and apriltag_worker_out
InMaxSize == 1
OutMaxSize == 1

\* a put that never finds the queue full
QueuePut_unbounded(q, maxsize, item, block) ==
    [waits |-> FALSE, raised |-> FALSE, q |-> Append(q, item)]
\* a put that replaces what the queue holds
QueuePut_latest(q, maxsize, item, block) ==
    [waits |-> FALSE, raised |-> FALSE, q |-> <<item>>]
\* a last-in first-out queue with room for one more item
QueuePut_lifo(q, maxsize, item, block) ==
    [waits  |-> block /\ Len(q) > maxsize,
     raised |-> ~block /\ Len(q) > maxsize,
     q      |-> IF Len(q) <= maxsize THEN <<item>> \o q ELSE q]

\* q.put(item, block): waits while a blocking put finds the queue full, raises
\* queue.Full when a non-blocking one does, appends otherwise.
QueuePut(q, maxsize, item, block) ==
    [waits  |-> block /\ Len(q) >= maxsize,
     raised |-> ~block /\ Len(q) >= maxsize,
     q      |-> IF Len(q) < maxsize THEN Append(q, item) ELSE q]

\* q.get(block): waits while a blocking get finds the queue empty, raises
\* queue.Empty when a non-blocking one does, takes the oldest item otherwise.
QueueGet(q, block) ==
    [waits  |-> block /\ Len(q) = 0,
     raised |-> ~block /\ Len(q) = 0,
     item   |-> IF Len(q) > 0 THEN Head(q) ELSE None,
     q      |-> IF Len(q) > 0 THEN Tail(q) ELSE q]

\* a blocking hand-off
HandoffBlock_blocking == TRUE
\* apriltag_worker_in.put(..., block=False)
HandoffBlock == FALSE
\* apriltag_worker_out.get(block=False)
PollBlock == FALSE
\* q_in.get() and q_out.put(...) in the worker: blocking
WorkerGetBlock == TRUE
\* q_out.put(..., block=False) in the worker
WorkerPutBlock_nonblocking == FALSE
WorkerPutBlock == TRUE

\* ------------------------------------------------------------------ state
VARIABLES
    clock,            \* time.time() of the capture loop, one tick per iteration
    config,           \* the ConfigStore object both threads hold a reference to
    mpc,              \* capture loop: "top", "handoff", "poll", "exit"
    timestamp,        \* capture loop's local timestamp
    frame,            \* capture loop's local frame
    was_calibrating,  \* capture loop's local was_calibrating
    q_in,             \* apriltag_worker_in
    q_out,            \* apriltag_worker_out
    wpc,              \* worker: "off", "get", "process", "put", "dead"
    sample,           \* worker's local sample, then the tuple it puts
    stream_frame,     \* the frame the worker's stream server serves
    completed,        \* the frames whose tuples the worker has completed
    published,        \* what send_apriltag_observation was called with
    call,             \* a routine called on its own: arguments and result
    uuid,             \* MjpegServer.uuid of the worker's stream server
    CLIENT_COUNTS,    \* StreamServer.CLIENT_COUNTS
    handlers,         \* the StreamingHandler threads of the stream server
    apriltags_frame_count,   \* capture loop's local apriltags_frame_count
    apriltags_last_print,    \* capture loop's local apriltags_last_print
    fps_signals,      \* what send_apriltag_fps was called with
    calibration_server_starts,  \* calls of calibration_session_server.start
    calibration_frames,         \* the frames given to calibration_session.process_frame
    video,            \* Capture.video
    last_config,      \* Capture.last_config
    last_get_frame    \* the last get_frame call: the settings it saw, what it did

\* the stream server's state, the fps accounting, the calibration session,
\* the capture object
streamVars == <<uuid, CLIENT_COUNTS, handlers>>
fpsVars == <<apriltags_frame_count, apriltags_last_print, fps_signals>>
calibrationVars == <<calibration_server_starts, calibration_frames>>
captureVars == <<video, last_config, last_get_frame>>

vars == <<clock, config, mpc, timestamp, frame, was_calibrating, q_in, q_out,
          wpc, sample, stream_frame, completed, published, call,
          streamVars, fpsVars, calibrationVars, captureVars>>

\* everything but the stream server and call
coreVars == <<clock, config, mpc, timestamp, frame, was_calibrating, q_in, q_out,
              wpc, sample, stream_frame, completed, published,
              fpsVars, calibrationVars, captureVars>>

NoCall == [fn |-> "none"]

\* the uuid run() gives the stream server (line 109)
Uuids == {"u"}
\* the clients that connect to /stream.mjpg
Clients == 1..(MaxClients + 1)

\* MjpegServer(): uuid = "", CLIENT_COUNTS = {} and no handler thread
StreamInit ==
    /\ uuid = ""
    /\ CLIENT_COUNTS = [u \in Uuids |-> None]
    /\ handlers = [c \in Clients |-> [pc |-> "idle"]]

\* src/__init__.py lines 59-60
FpsInit ==
    /\ apriltags_frame_count = 0
    /\ apriltags_last_print = 0
    /\ fps_signals = <<>>

\* src/__init__.py lines 43-44
CalibrationInit ==
    /\ calibration_server_starts = 0
    /\ calibration_frames = <<>>

\* Capture.video = None, last_config not yet assigned
CaptureInit ==
    /\ video = None
    /\ last_config = None
    /\ last_get_frame = None

\* the scenes the camera shows while the two threads run: no marker, one field
\* marker solved, one field marker whose undistortion raises
HarnessScenes ==
    {[ids |-> <<>>, fate |-> <<>>, sqpnp |-> OneSolution]} \cup
    {[ids |-> <<1>>, fate |-> <<f>>, sqpnp |-> OneSolution] : f \in {"solved", "fault"}}
\* the layouts the remote configuration switches between
HarnessLayouts == {None, [tags |-> <<[ID |-> 1, pose |-> [field_pose |-> 1]]>>]}

\* __main__ up to the loop (lines 35-63): the local configuration is read
\* once, the worker thread is started when apriltags_enable is set.
Init ==
    /\ clock = 0
    /\ \E has_calibration \in BOOLEAN, apriltags_enable \in BOOLEAN :
          /\ config = ConfigWith(has_calibration, apriltags_enable, None)
          /\ wpc = IF apriltags_enable THEN "get" ELSE "off"
    /\ mpc = "top"
    /\ timestamp = 0
    /\ frame = None
    /\ was_calibrating = FALSE
    /\ q_in = <<>>
    /\ q_out = <<>>
    /\ sample = None
    /\ stream_frame = None
    /\ completed = <<>>
    /\ published = <<>>
    /\ call = NoCall
    /\ StreamInit
    /\ FpsInit
    /\ CalibrationInit
    /\ CaptureInit

\* ------------------------------------------------------------------ capture loop
\* lines 65-67: remote_config_source.update(config), time.time(), get_frame
LoopHead(tag_layout) ==
    /\ mpc = "top"
    /\ clock < MaxTime
    /\ clock' = clock + 1
    /\ timestamp' = clock + 1
    /\ config' = [config EXCEPT !.remote_config.tag_layout = tag_layout]

\* lines 70-72: no frame, sleep and retry
MainCaptureFailed ==
    /\ \E tag_layout \in HarnessLayouts : LoopHead(tag_layout)
    /\ frame' = None
    /\ UNCHANGED <<mpc, was_calibrating, q_in, q_out, wpc, sample, stream_frame,
                   completed, published, call,
                   streamVars, fpsVars, calibrationVars, captureVars>>

\* a calibration server started for every calibration frame
CalibrationServerStarts_every_frame(calibrating_before, starts) == starts + 1

\* lines 76-78: the calibration stream server is created and started when
\* was_calibrating is not yet set
CalibrationServerStarts(calibrating_before, starts) ==
    IF ~calibrating_before THEN starts + 1 ELSE starts

\* lines 74-81: calibration mode
MainCalibrate ==
    /\ \E tag_layout \in HarnessLayouts : LoopHead(tag_layout)
    /\ \E scene \in HarnessScenes : frame' = [id |-> clock + 1, scene |-> scene]
    /\ calibration_server_starts' = CalibrationServerStarts(was_calibrating, calibration_server_starts)
    /\ was_calibrating' = TRUE
    /\ calibration_frames' = Append(calibration_frames, clock + 1)
    /\ UNCHANGED <<mpc, q_in, q_out, wpc, sample, stream_frame, completed, published, call,
                   streamVars, fpsVars, captureVars>>

\* lines 83-86: calibration finished, sys.exit(0)
MainFinishCalibration ==
    /\ was_calibrating
    /\ \E tag_layout \in HarnessLayouts : LoopHead(tag_layout)
    /\ \E scene \in HarnessScenes : frame' = [id |-> clock + 1, scene |-> scene]
    /\ mpc' = "exit"
    /\ UNCHANGED <<was_calibrating, q_in, q_out, wpc, sample, stream_frame,
                   completed, published, call,
                   streamVars, fpsVars, calibrationVars, captureVars>>

\* line 88 with the mandatory guard left out
HasCalibration_unchecked(config_store) == TRUE

\* line 88: elif config.local_config.has_calibration
HasCalibration(config_store) == config_store.local_config.has_calibration

\* lines 88-90: the AprilTag pipeline branch
MainPipeline ==
    /\ ~was_calibrating
    /\ HasCalibration(config)
    /\ \E tag_layout \in HarnessLayouts : LoopHead(tag_layout)
    /\ \E scene \in HarnessScenes : frame' = [id |-> clock + 1, scene |-> scene]
    /\ mpc' = IF config.local_config.apriltags_enable THEN "handoff" ELSE "top"
    /\ UNCHANGED <<was_calibrating, q_in, q_out, wpc, sample, stream_frame,
                   completed, published, call,
                   streamVars, fpsVars, calibrationVars, captureVars>>

\* lines 123-126: no calibration
MainNoCalibration ==
    /\ ~was_calibrating
    /\ ~HasCalibration(config)
    /\ \E tag_layout \in HarnessLayouts : LoopHead(tag_layout)
    /\ \E scene \in HarnessScenes : frame' = [id |-> clock + 1, scene |-> scene]
    /\ UNCHANGED <<mpc, was_calibrating, q_in, q_out, wpc, sample, stream_frame,
                   completed, published, call,
                   streamVars, fpsVars, calibrationVars, captureVars>>

\* line 92: the tuple (timestamp, frame, config). config is a reference to the
\* one ConfigStore object; config_at_handoff records what it held at that time.
HandoffSample == [timestamp |-> timestamp, frame |-> frame, config_at_handoff |-> config]

\* lines 91-94: the non-blocking hand-off; queue.Full is swallowed
MainHandoff ==
    /\ mpc = "handoff"
    /\ LET put == QueuePut(q_in, InMaxSize, HandoffSample, HandoffBlock)
       IN  /\ ~put.waits
           /\ q_in' = put.q
    /\ mpc' = "poll"
    /\ UNCHANGED <<clock, config, timestamp, frame, was_calibrating, q_out, wpc, sample,
                   stream_frame, completed, published, call,
                   streamVars, fpsVars, calibrationVars, captureVars>>

\* the publication stamped with the time of the loop iteration that polls
PublishedOf_looptime(bundle) ==
    [timestamp_out |-> timestamp,
     frame |-> bundle.frame,
     camera_pose_observation |-> bundle.camera_pose_observation,
     tag_angle_observations |-> bundle.tag_angle_observations,
     demo_pose_observation |-> bundle.demo_pose_observation]

\* what send_apriltag_observation receives for a tuple (lines 107-109); frame
\* is the frame the tuple was computed from
PublishedOf(bundle) ==
    [timestamp_out |-> bundle.timestamp,
     frame |-> bundle.frame,
     camera_pose_observation |-> bundle.camera_pose_observation,
     tag_angle_observations |-> bundle.tag_angle_observations,
     demo_pose_observation |-> bundle.demo_pose_observation]

\* line 117: time.time() - apriltags_last_print > 1. time.time() counts the
\* seconds since the epoch, so the test against the initial 0 succeeds; after
\* a signal, elapsed says whether more than a second has passed since.
WindowElapsed(last_print, elapsed) == last_print = 0 \/ elapsed

\* the fps accounting without the reset of line 121
FpsAccounting_no_reset(frame_count, last_print, now, elapsed) ==
    IF WindowElapsed(last_print, elapsed)
    THEN [frame_count |-> frame_count + 1, last_print |-> now, signal |-> [count |-> frame_count + 1]]
    ELSE [frame_count |-> frame_count + 1, last_print |-> last_print, signal |-> None]

\* lines 116-121: count the tuple, and when the window has elapsed send the
\* count and reset it
FpsAccounting(frame_count, last_print, now, elapsed) ==
    IF WindowElapsed(last_print, elapsed)
    THEN [frame_count |-> 0, last_print |-> now, signal |-> [count |-> frame_count + 1]]
    ELSE [frame_count |-> frame_count + 1, last_print |-> last_print, signal |-> None]

\* lines 95-121: the non-blocking poll; queue.Empty is swallowed, a tuple is
\* published and counted. A signal is recorded with the number of tuples
\* consumed so far (consumed).
MainPoll ==
    /\ mpc = "poll"
    /\ LET get == QueueGet(q_out, PollBlock)
       IN  /\ ~get.waits
           /\ q_out' = get.q
           /\ IF get.raised
              THEN UNCHANGED <<published, fpsVars>>
              ELSE /\ published' = Append(published, PublishedOf(get.item))
                   /\ \E elapsed \in BOOLEAN :
                         LET fps == FpsAccounting(apriltags_frame_count, apriltags_last_print,
                                                  timestamp, elapsed)
                         IN  /\ apriltags_frame_count' = fps.frame_count
                             /\ apriltags_last_print' = fps.last_print
                             /\ fps_signals' =
                                   IF fps.signal = None THEN fps_signals
                                   ELSE Append(fps_signals,
                                               [timestamp_out |-> get.item.timestamp,
                                                count |-> fps.signal.count,
                                                consumed |-> Len(published) + 1])
    /\ mpc' = "top"
    /\ UNCHANGED <<clock, config, timestamp, frame, was_calibrating, q_in, wpc, sample,
                   stream_frame, completed, call,
                   streamVars, calibrationVars, captureVars>>

\* ------------------------------------------------------------------ stream server
\* MjpegServer of StreamServer.py: the server thread (run), the handler
\* threads of ThreadingMixIn (one per connection) and the worker calling
\* get_client_count.

\* CLIENT_COUNTS has the key uuid_key
Registered(counts, uuid_key) == uuid_key # "" /\ counts[uuid_key] # None

\* MjpegServer.get_client_count (lines 121-125): CLIENT_COUNTS[self.uuid]
\* raises KeyError for a key that is not there
get_client_count(self_uuid, counts) ==
    IF self_uuid # ""
    THEN IF counts[self_uuid] = None THEN Raised ELSE Returned(counts[self_uuid].count)
    ELSE Returned(0)

\* run, line 109: self.uuid = ...
ServerAssignUuid ==
    /\ uuid = ""
    /\ \E u \in Uuids : uuid' = u
    /\ UNCHANGED <<CLIENT_COUNTS, handlers>>

\* run, line 110: CLIENT_COUNTS[self.uuid] = 0; the server then serves
ServerRegister ==
    /\ uuid # ""
    /\ CLIENT_COUNTS[uuid] = None
    /\ CLIENT_COUNTS' = [CLIENT_COUNTS EXCEPT ![uuid] = [count |-> 0]]
    /\ UNCHANGED <<uuid, handlers>>

\* a client requests /stream.mjpg: a handler thread is started for it and
\* sends the headers (lines 70-76)
HandlerConnect(c) ==
    /\ Registered(CLIENT_COUNTS, uuid)
    /\ handlers[c].pc = "idle"
    /\ handlers' = [handlers EXCEPT ![c] = [pc |-> "increment"]]
    /\ UNCHANGED <<uuid, CLIENT_COUNTS>>

\* line 78, CLIENT_COUNTS[uuid] += 1: the read of the counter
HandlerIncrementLoad(c) ==
    /\ handlers[c].pc = "increment"
    /\ handlers' = [handlers EXCEPT ![c] = [pc |-> "increment_store", loaded |-> CLIENT_COUNTS[uuid].count]]
    /\ UNCHANGED <<uuid, CLIENT_COUNTS>>

\* line 78: the write of the counter; the streaming loop follows (79-93)
HandlerIncrementStore(c) ==
    /\ handlers[c].pc = "increment_store"
    /\ CLIENT_COUNTS' = [CLIENT_COUNTS EXCEPT ![uuid] = [count |-> handlers[c].loaded + 1]]
    /\ handlers' = [handlers EXCEPT ![c] = [pc |-> "streaming"]]
    /\ UNCHANGED uuid

\* the client goes away: a write raises, the loop is left (lines 94-96)
HandlerDisconnect(c) ==
    /\ handlers[c].pc = "streaming"
    /\ handlers' = [handlers EXCEPT ![c] = [pc |-> "decrement"]]
    /\ UNCHANGED <<uuid, CLIENT_COUNTS>>

\* line 97, CLIENT_COUNTS[uuid] -= 1: the read of the counter
HandlerDecrementLoad(c) ==
    /\ handlers[c].pc = "decrement"
    /\ handlers' = [handlers EXCEPT ![c] = [pc |-> "decrement_store", loaded |-> CLIENT_COUNTS[uuid].count]]
    /\ UNCHANGED <<uuid, CLIENT_COUNTS>>

\* line 97: the write of the counter; the handler thread ends
HandlerDecrementStore(c) ==
    /\ handlers[c].pc = "decrement_store"
    /\ CLIENT_COUNTS' = [CLIENT_COUNTS EXCEPT ![uuid] = [count |-> handlers[c].loaded - 1]]
    /\ handlers' = [handlers EXCEPT ![c] = [pc |-> "gone"]]
    /\ UNCHANGED uuid

\* the handler threads counting clients in and out (lines 78 and 97), by
\* their effect on the counter between two reads of the worker
StreamClients ==
    /\ Registered(CLIENT_COUNTS, uuid)
    /\ \E streaming \in 0..MaxClients :
          /\ streaming # CLIENT_COUNTS[uuid].count
          /\ CLIENT_COUNTS' = [CLIENT_COUNTS EXCEPT ![uuid] = [count |-> streaming]]
    /\ UNCHANGED <<uuid, handlers>>

\* ------------------------------------------------------------------ worker
\* the worker thread is a daemon: it runs while the process does
WorkerRuns == mpc # "exit"

\* the stream server's threads are started by the worker thread
\* (AprilTagWorker.py lines 32-33) and are daemons as well
StreamServerRuns == wpc # "off" /\ mpc # "exit"

\* line 36: sample = q_in.get()
WorkerGet ==
    /\ WorkerRuns
    /\ wpc = "get"
    /\ LET get == QueueGet(q_in, WorkerGetBlock)
       IN  /\ ~get.waits
           /\ q_in' = get.q
           /\ sample' = get.item
    /\ wpc' = "process"
    /\ UNCHANGED <<clock, config, mpc, timestamp, frame, was_calibrating, q_out,
                   stream_frame, completed, published, call,
                   streamVars, fpsVars, calibrationVars, captureVars>>

\* lines 37-55: detection and the three solves, with the configuration object
\* as it is when they run; an exception ends the thread
WorkerSolve ==
    /\ WorkerRuns
    /\ wpc = "process"
    /\ LET r == WorkerProcess(sample.timestamp, sample.frame.id, config,
                              sample.frame.scene.ids, EnvOf(sample.frame.scene))
       IN  IF r.raised
           THEN /\ wpc' = "dead"
                /\ sample' = None
                /\ completed' = completed
           ELSE /\ wpc' = "put"
                /\ sample' = r.value
                /\ completed' = Append(completed, r.value.frame)
    /\ UNCHANGED <<clock, config, mpc, timestamp, frame, was_calibrating, q_in, q_out,
                   stream_frame, published, call,
                   streamVars, fpsVars, calibrationVars, captureVars>>

\* the overlay made for every frame
OverlayWanted_always(client_count) == TRUE

\* line 60: if stream_server.get_client_count() > 0
OverlayWanted(client_count) == client_count > 0

\* lines 57-63: q_out.put(...), then get_client_count() and the overlay when
\* a client is attached: a copy of the frame, annotated, given to set_frame.
\* A KeyError from get_client_count ends the thread.
WorkerPut ==
    /\ WorkerRuns
    /\ wpc = "put"
    /\ LET put == QueuePut(q_out, OutMaxSize, sample, WorkerPutBlock)
       IN  /\ ~put.waits
           /\ q_out' = put.q
    /\ LET r == get_client_count(uuid, CLIENT_COUNTS)
       IN  IF r.raised
           THEN /\ wpc' = "dead"
                /\ stream_frame' = stream_frame
           ELSE /\ wpc' = "get"
                /\ stream_frame' = IF OverlayWanted(r.value)
                                   THEN [overlay_of |-> sample.frame]
                                   ELSE stream_frame
    /\ sample' = None
    /\ UNCHANGED <<clock, config, mpc, timestamp, frame, was_calibrating, q_in,
                   completed, published, call,
                   streamVars, fpsVars, calibrationVars, captureVars>>

Next ==
    \/ MainCaptureFailed
    \/ MainCalibrate
    \/ MainFinishCalibration
    \/ MainPipeline
    \/ MainNoCalibration
    \/ MainHandoff
    \/ MainPoll
    \/ WorkerGet
    \/ WorkerSolve
    \/ WorkerPut
    \/ (StreamServerRuns /\ ServerAssignUuid /\ UNCHANGED <<coreVars, call>>)
    \/ (StreamServerRuns /\ ServerRegister /\ UNCHANGED <<coreVars, call>>)
    \/ (StreamServerRuns /\ StreamClients /\ UNCHANGED <<coreVars, call>>)

Spec == Init /\ [][Next]_vars

\* ------------------------------------------------------------------ stream server on its own
\* the worker asks for the client count (AprilTagWorker.py line 60)
WorkerGetClientCount ==
    /\ call' = [fn |-> "get_client_count",
                uuid |-> uuid,
                CLIENT_COUNTS |-> CLIENT_COUNTS,
                result |-> get_client_count(uuid, CLIENT_COUNTS)]
    /\ UNCHANGED <<coreVars, streamVars>>

\* stream_server.start(server_port) has been called (AprilTagWorker.py 32-33)
InitStream ==
    /\ clock = 0
    /\ config = ConfigWith(TRUE, TRUE, None)
    /\ wpc = "get"
    /\ mpc = "top"
    /\ timestamp = 0
    /\ frame = None
    /\ was_calibrating = FALSE
    /\ q_in = <<>>
    /\ q_out = <<>>
    /\ sample = None
    /\ stream_frame = None
    /\ completed = <<>>
    /\ published = <<>>
    /\ call = NoCall
    /\ StreamInit
    /\ FpsInit
    /\ CalibrationInit
    /\ CaptureInit

NextStream ==
    \/ (ServerAssignUuid /\ UNCHANGED <<coreVars, call>>)
    \/ (ServerRegister /\ UNCHANGED <<coreVars, call>>)
    \/ \E c \in Clients :
          \/ (HandlerConnect(c) /\ UNCHANGED <<coreVars, call>>)
          \/ (HandlerIncrementLoad(c) /\ UNCHANGED <<coreVars, call>>)
          \/ (HandlerIncrementStore(c) /\ UNCHANGED <<coreVars, call>>)
          \/ (HandlerDisconnect(c) /\ UNCHANGED <<coreVars, call>>)
          \/ (HandlerDecrementLoad(c) /\ UNCHANGED <<coreVars, call>>)
          \/ (HandlerDecrementStore(c) /\ UNCHANGED <<coreVars, call>>)
    \/ WorkerGetClientCount

SpecStream == InitStream /\ [][NextStream]_vars

\* ------------------------------------------------------------------ capture
\* The head of the capture loop (lines 65-72) with capture.get_frame(config)
\* of Capture.py, followed by the hand-off and the poll of the pipeline branch.
NumericSettings ==
    {"camera_resolution_width", "camera_resolution_height", "camera_framerate",
     "camera_auto_exposure", "camera_exposure", "camera_gain", "camera_denoise"}
\* RemoteConfig's camera fields with a camera connected
BaseSettings ==
    [camera_id |-> "a", camera_resolution_width |-> 0, camera_resolution_height |-> 0,
     camera_framerate |-> 0, camera_auto_exposure |-> 0, camera_exposure |-> 0,
     camera_gain |-> 0, camera_denoise |-> 0]
\* the remote camera settings NetworkTables delivers: the base settings, another
\* or no camera id, one numeric setting changed
CameraSettings ==
    {BaseSettings} \cup
    {[BaseSettings EXCEPT !.camera_id = id] : id \in {"", "b"}} \cup
    {[BaseSettings EXCEPT ![f] = v] : f \in NumericSettings, v \in 1..MaxSetting}

\* a ConfigStore with these local and remote parts
CaptureConfig(capture_impl, settings) ==
    [local_config |-> [capture_impl |-> capture_impl, has_calibration |-> TRUE, apriltags_enable |-> TRUE],
     remote_config |-> settings]

\* Capture.config_changed(config_a, config_b)
config_changed(config_a, config_b) ==
    IF config_a = None /\ config_b = None THEN FALSE
    ELSE IF config_a = None \/ config_b = None THEN TRUE
    ELSE LET remote_a == config_a.remote_config
             remote_b == config_b.remote_config
         IN  \/ remote_a.camera_id # remote_b.camera_id
             \/ remote_a.camera_resolution_width # remote_b.camera_resolution_width
             \/ remote_a.camera_resolution_height # remote_b.camera_resolution_height
             \/ remote_a.camera_auto_exposure # remote_b.camera_auto_exposure
             \/ remote_a.camera_exposure # remote_b.camera_exposure
             \/ remote_a.camera_gain # remote_b.camera_gain
             \/ remote_a.camera_denoise # remote_b.camera_denoise

\* self.last_config is a reference: to the ConfigStore object the caller
\* passes (same_object) or to a ConfigStore made from copies of its parts.
\* What it holds when the store passed to get_frame holds config_store:
LastConfigValue(reference, config_store) ==
    IF reference = None THEN None
    ELSE IF reference.same_object THEN config_store
    ELSE reference.copy

\* cv.VideoCapture(...) opened on these settings
VideoCapture(settings) == [opened_with |-> settings]

\* video.read() of a session: no frame from a session without a camera id
VideoRead(session, retval) == retval /\ session.opened_with.camera_id # ""

\* DefaultCapture.get_frame(config_store) (lines 48-65); retval is what the
\* camera answers to video.read()
DefaultCapture_get_frame(self_video, self_last_config, config_store, retval) ==
    LET restart == /\ self_video # None
                   /\ config_changed(LastConfigValue(self_last_config, config_store), config_store)
        video_1 == IF restart THEN None ELSE self_video
        video_2 == IF video_1 = None THEN VideoCapture(config_store.remote_config) ELSE video_1
    IN  [video       |-> video_2,
         last_config |-> [same_object |-> TRUE],
         released    |-> restart,
         opened_with |-> IF video_1 = None THEN config_store.remote_config ELSE None,
         exits       |-> FALSE,
         success     |-> VideoRead(video_2, retval)]

\* GStreamerCapture.get_frame(config_store) (lines 77-115)
GStreamerCapture_get_frame(self_video, self_last_config, config_store, retval) ==
    LET restart == /\ self_video # None
                   /\ config_changed(LastConfigValue(self_last_config, config_store), config_store)
        video_1 == IF restart THEN None ELSE self_video
        opens   == video_1 = None /\ config_store.remote_config.camera_id # ""
        video_2 == IF opens THEN VideoCapture(config_store.remote_config) ELSE video_1
        failed  == video_2 # None /\ ~VideoRead(video_2, retval)
    IN  [video       |-> IF failed THEN None ELSE video_2,
         last_config |-> [same_object |-> FALSE, copy |-> config_store],
         released    |-> restart,
         opened_with |-> IF opens THEN config_store.remote_config ELSE None,
         exits       |-> failed,
         success     |-> video_2 # None /\ ~failed]

\* CAPTURE_IMPLS[config.local_config.capture_impl]().get_frame(config)
get_frame(capture_impl, self_video, self_last_config, config_store, retval) ==
    IF capture_impl = "gstreamer"
    THEN GStreamerCapture_get_frame(self_video, self_last_config, config_store, retval)
    ELSE DefaultCapture_get_frame(self_video, self_last_config, config_store, retval)

\* lines 65-67: the remote update writes settings into the store, then
\* get_frame runs on it; r is what get_frame does
CaptureHead(settings, r) ==
    /\ mpc = "top"
    /\ clock < MaxTime
    /\ clock' = clock + 1
    /\ timestamp' = clock + 1
    /\ config' = [config EXCEPT !.remote_config = settings]
    /\ video' = r.video
    /\ last_config' = r.last_config
    /\ last_get_frame' = [settings |-> settings, released |-> r.released, opened_with |-> r.opened_with]

\* a frame was read: the pipeline branch follows (lines 88-90)
CaptureFrame ==
    /\ \E settings \in CameraSettings, retval \in BOOLEAN :
          LET r == get_frame(config.local_config.capture_impl, video, last_config,
                             [config EXCEPT !.remote_config = settings], retval)
          IN  /\ r.success /\ ~r.exits
              /\ CaptureHead(settings, r)
    /\ frame' = [id |-> clock + 1]
    /\ mpc' = "handoff"
    /\ UNCHANGED <<was_calibrating, q_in, q_out, wpc, sample, stream_frame, completed,
                   published, call, streamVars, fpsVars, calibrationVars>>

\* lines 70-72: get_frame returned success = False; sleep and retry
CaptureRetry ==
    /\ \E settings \in CameraSettings, retval \in BOOLEAN :
          LET r == get_frame(config.local_config.capture_impl, video, last_config,
                             [config EXCEPT !.remote_config = settings], retval)
          IN  /\ ~r.success /\ ~r.exits
              /\ CaptureHead(settings, r)
    /\ frame' = None
    /\ UNCHANGED <<mpc, was_calibrating, q_in, q_out, wpc, sample, stream_frame, completed,
                   published, call, streamVars, fpsVars, calibrationVars>>

\* Capture.py line 112: sys.exit(1) inside get_frame
CaptureExit ==
    /\ \E settings \in CameraSettings, retval \in BOOLEAN :
          LET r == get_frame(config.local_config.capture_impl, video, last_config,
                             [config EXCEPT !.remote_config = settings], retval)
          IN  /\ r.exits
              /\ CaptureHead(settings, r)
    /\ frame' = None
    /\ mpc' = "exit"
    /\ UNCHANGED <<was_calibrating, q_in, q_out, wpc, sample, stream_frame, completed,
                   published, call, streamVars, fpsVars, calibrationVars>>

\* __main__ up to the loop with either capture implementation; the worker is
\* left out
InitCapture ==
    /\ clock = 0
    /\ \E capture_impl \in {"", "gstreamer"}, settings \in CameraSettings :
          config = CaptureConfig(capture_impl, settings)
    /\ wpc = "off"
    /\ mpc = "top"
    /\ timestamp = 0
    /\ frame = None
    /\ was_calibrating = FALSE
    /\ q_in = <<>>
    /\ q_out = <<>>
    /\ sample = None
    /\ stream_frame = None
    /\ completed = <<>>
    /\ published = <<>>
    /\ call = NoCall
    /\ StreamInit
    /\ FpsInit
    /\ CalibrationInit
    /\ CaptureInit

NextCapture ==
    \/ CaptureFrame
    \/ CaptureRetry
    \/ CaptureExit
    \/ MainHandoff
    \/ MainPoll

SpecCapture == InitCapture /\ [][NextCapture]_vars

\* ------------------------------------------------------------------ routines on their own
\* Each routine of the pipeline called once on inputs drawn from the bounded
\* sets; `call` records the arguments and the result.
UnitIdle ==
    /\ call = NoCall
    /\ UNCHANGED <<clock, config, mpc, timestamp, frame, was_calibrating, q_in, q_out,
                   wpc, sample, stream_frame, completed, published,
                   streamVars, fpsVars, calibrationVars, captureVars>>

CallSolveCameraPose ==
    /\ UnitIdle
    /\ \E scene \in Scenes, tag_layout \in Layouts :
          LET frame_observations == detect_fiducials(scene.ids)
              config_store == ConfigWith(TRUE, TRUE, tag_layout)
          IN  call' = [fn |-> "solve_camera_pose",
                       frame_observations |-> frame_observations,
                       tag_layout |-> tag_layout,
                       env |-> EnvOf(scene),
                       result |-> solve_camera_pose(frame_observations, config_store, EnvOf(scene))]

CallSolveFiducialPose ==
    /\ UnitIdle
    /\ \E id \in ObservedIds, ippe \in IppeResults :
          LET frame_observation == detect_fiducials(<<id>>)[1]
              env == [ippe |-> <<ippe>>, undistort |-> <<TRUE>>, sqpnp |-> Raised]
          IN  call' = [fn |-> "solve_fiducial_pose",
                       frame_observation |-> frame_observation,
                       env |-> env,
                       result |-> solve_fiducial_pose(frame_observation, env)]

CallCalculateTagAngles ==
    /\ UnitIdle
    /\ \E id \in ObservedIds, ippe \in IppeResults, undistort \in BOOLEAN :
          LET frame_observation == detect_fiducials(<<id>>)[1]
              env == [ippe |-> <<ippe>>, undistort |-> <<undistort>>, sqpnp |-> Raised]
          IN  call' = [fn |-> "calculate_tag_angles",
                       frame_observation |-> frame_observation,
                       env |-> env,
                       result |-> calculate_tag_angles(frame_observation, env)]

\* one pass of the worker loop on one frame
CallWorkerProcess ==
    /\ UnitIdle
    /\ \E scene \in Scenes, tag_layout \in Layouts :
          call' = [fn |-> "apriltag_worker",
                   ids |-> scene.ids,
                   tag_layout |-> tag_layout,
                   env |-> EnvOf(scene),
                   calls |-> WorkerCalls(scene.ids),
                   result |-> WorkerProcess(1, 1, ConfigWith(TRUE, TRUE, tag_layout),
                                            scene.ids, EnvOf(scene))]

\* the translations of the conversions of CoordinateSystems.py
Translations ==
    {<<x, y, z>> : x \in -MaxCoord..MaxCoord, y \in -MaxCoord..MaxCoord, z \in -MaxCoord..MaxCoord}

\* a translation converted to the field convention and back, and to the
\* vision convention and back
CallTranslationConversions ==
    /\ UnitIdle
    /\ \E p \in Translations :
          call' = [fn |-> "translation_conversions",
                   p |-> p,
                   to_field |-> opencv_translation_to_wpilib(p),
                   to_field_and_back |-> wpilib_translation_to_opencv(opencv_translation_to_wpilib(p)),
                   to_vision |-> wpilib_translation_to_opencv(p),
                   to_vision_and_back |-> opencv_translation_to_wpilib(wpilib_translation_to_opencv(p))]

\* ------------------------------------------------------------------ NTConfigSource
\* A text is well-formed JSON for a value, or malformed (the empty string the
\* tag_layout subscriber defaults to is malformed).
JsonText(value) == [json |-> value]
MalformedTexts == {[malformed |-> ""], [malformed |-> "{"]}

\* json.loads(text): raises on a malformed text
json_loads(text) ==
    IF "malformed" \in DOMAIN text THEN Raised ELSE Returned(text.json)

\* the layout of the bundled file /home/sim/visionSystem/layout/2025-official.json:
\* every field marker
DefaultLayout == [tags |-> [j \in 1..MaxFieldId |-> [ID |-> j, pose |-> [field_pose |-> j]]]]
\* open(...).read() of the bundled file
DefaultLayoutFile == JsonText(DefaultLayout)

\* the texts NetworkTables delivers for tag_layout
LayoutTexts == MalformedTexts \cup {JsonText(layout) : layout \in Layouts}

\* RemoteConfig with every field
RemoteConfigOf(settings, fiducial_size_m, tag_layout, remote_timestamp) ==
    [camera_id |-> settings.camera_id,
     camera_resolution_width |-> settings.camera_resolution_width,
     camera_resolution_height |-> settings.camera_resolution_height,
     camera_framerate |-> settings.camera_framerate,
     camera_auto_exposure |-> settings.camera_auto_exposure,
     camera_exposure |-> settings.camera_exposure,
     camera_gain |-> settings.camera_gain,
     camera_denoise |-> settings.camera_denoise,
     fiducial_size_m |-> fiducial_size_m,
     tag_layout |-> tag_layout,
     timestamp |-> remote_timestamp]

\* update keeping the layout it had when the text does not parse
NTConfigSource_update_keep_layout(config_store, subscribed) ==
    LET parsed == json_loads(subscribed.tag_layout)
    IN  Returned([config_store EXCEPT !.remote_config =
            RemoteConfigOf(subscribed.settings, subscribed.fiducial_size_m,
                           IF parsed.raised THEN config_store.remote_config.tag_layout
                           ELSE parsed.value,
                           subscribed.timestamp)])

\* NTConfigSource.update(config_store) (lines 103-119); subscribed is what the
\* subscribers' get() return
NTConfigSource_update(config_store, subscribed) ==
    LET parsed == json_loads(subscribed.tag_layout)
        fallback == json_loads(DefaultLayoutFile)
    IN  IF parsed.raised /\ fallback.raised THEN Raised
        ELSE Returned([config_store EXCEPT !.remote_config =
                RemoteConfigOf(subscribed.settings, subscribed.fiducial_size_m,
                               IF parsed.raised THEN fallback.value ELSE parsed.value,
                               subscribed.timestamp)])

\* one update of a store
CallNTConfigUpdate ==
    /\ UnitIdle
    /\ \E tag_layout \in HarnessLayouts, settings \in CameraSettings,
          text \in LayoutTexts, remote_timestamp \in 1..MaxTime :
          LET config_store == [local_config |-> [has_calibration |-> TRUE, apriltags_enable |-> TRUE],
                               remote_config |-> RemoteConfigOf(BaseSettings, 0, tag_layout, 0)]
              subscribed == [settings |-> settings, fiducial_size_m |-> 0,
                             tag_layout |-> text, timestamp |-> remote_timestamp]
          IN  call' = [fn |-> "NTConfigSource.update",
                       config_store |-> config_store,
                       subscribed |-> subscribed,
                       result |-> NTConfigSource_update(config_store, subscribed)]

InitUnit ==
    /\ clock = 0
    /\ config = ConfigWith(TRUE, TRUE, None)
    /\ wpc = "get"
    /\ mpc = "top"
    /\ timestamp = 0
    /\ frame = None
    /\ was_calibrating = FALSE
    /\ q_in = <<>>
    /\ q_out = <<>>
    /\ sample = None
    /\ stream_frame = None
    /\ completed = <<>>
    /\ published = <<>>
    /\ call = NoCall
    /\ StreamInit
    /\ FpsInit
    /\ CalibrationInit
    /\ CaptureInit

NextUnit ==
    \/ CallSolveCameraPose
    \/ CallSolveFiducialPose
    \/ CallCalculateTagAngles
    \/ CallWorkerProcess
    \/ CallTranslationConversions
    \/ CallNTConfigUpdate

SpecUnit == InitUnit /\ [][NextUnit]_vars

\* ------------------------------------------------------------------ properties
\* C1: a hand-off attempted while the input channel still holds an item leaves
\* the channel as it is (the new frame is dropped), and the input channel never
\* holds more than one pending frame.
C1_HandoffDropsWhenOccupied ==
    /\ [](Len(q_in) <= 1)
    /\ [][(mpc = "handoff" /\ mpc' = "poll" /\ Len(q_in) > 0) => q_in' = q_in]_vars
\* the hand-off of the frame taken at `timestamp` has been attempted, and the
\* channel still holds the older frame only
C1_Witness ==
    /\ mpc = "poll"
    /\ Len(q_in) = 1
    /\ q_in[1].timestamp < timestamp

\* C2 as stated: the bundle a poll delivers is the newest bundle the worker
\* has completed (latest-wins).
C2_LatestWins ==
    [][(mpc = "poll" /\ Len(published') = Len(published) + 1)
          => published'[Len(published')].frame = completed[Len(completed)]]_vars
\* C2 as amended: the output channel holds at most one bundle, a bundle in it
\* leaves it only by being delivered to the consumer, and a worker holding a
\* newer completed bundle keeps it until the channel is empty.
C2_OlderDeliveredFirst ==
    /\ [](Len(q_out) <= 1)
    /\ [][(Len(q_out) = 1 /\ q_out' # q_out)
             => (q_out' = <<>> /\ published' = Append(published, PublishedOf(q_out[1])))]_vars
    /\ [][(wpc = "put" /\ Len(q_out) = 1) => (wpc' = "put" /\ sample' = sample)]_vars
\* the worker holds a completed bundle while an older one is unconsumed
C2_Witness ==
    /\ wpc = "put"
    /\ Len(q_out) = 1
    /\ q_out[1].frame < sample.frame

\* C3: the capture loop's hand-off and its poll can always be taken, whatever
\* the worker is doing.
C3_LoopNeverBlocks ==
    /\ mpc = "handoff" => ENABLED MainHandoff
    /\ mpc = "poll" => ENABLED MainPoll
\* the hand-off has completed with the worker terminated and the channel full
C3_Witness ==
    /\ mpc = "poll"
    /\ wpc = "dead"
    /\ Len(q_in) = 1
    /\ q_in[1].timestamp < timestamp

\* C4: the consumer never receives a bundle of a frame handed off earlier than
\* the frame of a bundle it has already received.
C4_NoReorder ==
    \A i, j \in 1..Len(published) :
        i < j => /\ published[i].frame <= published[j].frame
                 /\ published[i].timestamp_out <= published[j].timestamp_out
\* two bundles have been received
C4_Witness == Len(published) >= 2

\* C5: no fault while processing a frame stops the worker: the worker thread
\* never terminates.
C5_WorkerNeverStops == wpc # "dead"

\* the positions of the observations whose id has an entry in the layout
UsablePositions(frame_observations, tag_layout) ==
    IF tag_layout = None THEN {}
    ELSE {i \in 1..Len(frame_observations) :
             \E j \in 1..Len(tag_layout.tags) :
                 tag_layout.tags[j].ID = frame_observations[i].tag_id.val}

\* C6: observations with the demo id are passed neither to solve_camera_pose
\* nor to calculate_tag_angles; the first of them alone is passed to
\* solve_fiducial_pose, and there is no demo pose without one.
C6_DemoRouted ==
    call.fn = "apriltag_worker" =>
        /\ \A k \in 1..Len(call.calls.pose_args) : call.calls.pose_args[k].tag_id.val # DEMO_ID
        /\ \A k \in 1..Len(call.calls.angle_args) : call.calls.angle_args[k].tag_id.val # DEMO_ID
        /\ (\E i \in 1..Len(call.ids) : call.ids[i] = DEMO_ID) <=> Len(call.calls.demo_args) = 1
        /\ (~call.result.raised /\ Len(call.calls.demo_args) = 0)
              => call.result.value.demo_pose_observation = None

\* C7: with two or more observed markers in the layout, a returned observation
\* pools all of them and has one solution: pose_1 and error_1 are None.
C7_MultiTagOneSolution ==
    (/\ call.fn = "solve_camera_pose"
     /\ Cardinality(UsablePositions(call.frame_observations, call.tag_layout)) >= 2
     /\ ~call.result.raised
     /\ call.result.value # None)
    => /\ call.result.value.pose_1 = None
       /\ call.result.value.error_1 = None
       /\ \A i \in UsablePositions(call.frame_observations, call.tag_layout) :
             \E k \in 1..Len(call.result.value.tag_ids) :
                 call.result.value.tag_ids[k] = call.frame_observations[i].tag_id

\* C8: with exactly one observed marker in the layout, wherever its entry is,
\* and its planar solve giving two solutions, the returned observation has
\* both solutions populated.
C8_SingleTagTwoSolutions ==
    (/\ call.fn = "solve_camera_pose"
     /\ Cardinality(UsablePositions(call.frame_observations, call.tag_layout)) = 1
     /\ \A i \in UsablePositions(call.frame_observations, call.tag_layout) :
           ~call.env.ippe[i].raised /\ Len(call.env.ippe[i].value) = 2)
    => /\ ~call.result.raised
       /\ call.result.value # None
       /\ call.result.value.pose_0 # None
       /\ call.result.value.error_0 # None
       /\ call.result.value.pose_1 # None
       /\ call.result.value.error_1 # None

\* C9: the tag_ids of a returned observation are the observed ids that are in
\* the layout, each once.
C9_TagIdsAreUsableIds ==
    (/\ call.fn = "solve_camera_pose"
     /\ ~call.result.raised
     /\ call.result.value # None)
    => LET usable == UsablePositions(call.frame_observations, call.tag_layout)
           tag_ids == call.result.value.tag_ids
       IN  /\ Len(tag_ids) = Cardinality(usable)
           /\ \A i \in usable : \E k \in 1..Len(tag_ids) : tag_ids[k] = call.frame_observations[i].tag_id
           /\ \A k \in 1..Len(tag_ids) : \E i \in usable : tag_ids[k] = call.frame_observations[i].tag_id

\* C10: solve_camera_pose returns None and raises nothing when the layout is
\* missing or no observed id has an entry in it.
C10_AbsentWithoutLayoutEntry ==
    (/\ call.fn = "solve_camera_pose"
     /\ UsablePositions(call.frame_observations, call.tag_layout) = {})
    => call.result = Returned(None)
\* markers were observed, a layout is present, none of the ids is in it
C10_Witness ==
    /\ call.fn = "solve_camera_pose"
    /\ Len(call.frame_observations) > 0
    /\ call.tag_layout # None
    /\ Len(call.tag_layout.tags) > 0
    /\ UsablePositions(call.frame_observations, call.tag_layout) = {}
    /\ call.result = Returned(None)

\* the solver run that solve_camera_pose makes on these arguments raises or
\* gives fewer solutions than the branch reads
SolveStepFails(frame_observations, tag_layout, env) ==
    /\ tag_layout # None
    /\ Len(frame_observations) > 0
    /\ LET observation == frame_observations[1]
           acc == LayoutLoop(tag_layout.tags, 1, observation, None, EmptyPoints)
           r == IF Len(acc.tag_ids) = 1
                THEN solvePnPGeneric(SquareTemplate, acc.frame_points, env.ippe[observation.corners])
                ELSE solvePnPGeneric(acc.object_points, acc.frame_points, env.sqpnp)
       IN  \/ r.raised
           \/ Len(r.value) < (IF Len(acc.tag_ids) = 1 THEN 2 ELSE 1)

\* C11: when the solve step of solve_camera_pose fails (the solver raises or
\* returns fewer solutions than the branch reads), the result is None and no
\* exception leaves the routine.
C11_FailedSolveGivesNone ==
    (/\ call.fn = "solve_camera_pose"
     /\ SolveStepFails(call.frame_observations, call.tag_layout, call.env))
    => call.result = Returned(None)

\* C12: solve_fiducial_pose never raises and returns either None or a result
\* made of the first two solutions of the solver, whatever the solver does.
C12_ZeroOrTwoSolutions ==
    call.fn = "solve_fiducial_pose" =>
        LET r == call.env.ippe[call.frame_observation.corners]
        IN  /\ ~call.result.raised
            /\ (r.raised \/ Len(r.value) < 2) => call.result.value = None
            /\ (~r.raised /\ Len(r.value) = 2) =>
                  /\ call.result.value # None
                  /\ call.result.value.pose_0 = opencv_pose_to_wpilib(r.value[1])
                  /\ call.result.value.error_0 = r.value[1].err
                  /\ call.result.value.pose_1 = opencv_pose_to_wpilib(r.value[2])
                  /\ call.result.value.error_1 = r.value[2].err
\* the solver returned one solution and the routine returned None
C12_Witness ==
    /\ call.fn = "solve_fiducial_pose"
    /\ ~call.env.ippe[1].raised
    /\ Len(call.env.ippe[1].value) = 1
    /\ call.result = Returned(None)

\* C13: the configuration the worker reads while processing a frame is the
\* configuration in effect when the frame was handed off.
C13_ConfigFixedAtHandoff ==
    [][(wpc = "process" /\ wpc' # "process") => config = sample.config_at_handoff]_vars

\* C14: while the calibration-present flag is false nothing is handed to the
\* worker, the worker takes nothing and completes nothing, and nothing is
\* published.
C14_NoPoseWorkWithoutCalibration ==
    ~config.local_config.has_calibration =>
        /\ mpc \in {"top", "exit"}
        /\ q_in = <<>>
        /\ q_out = <<>>
        /\ wpc \in {"get", "off"}
        /\ sample = None
        /\ completed = <<>>
        /\ published = <<>>

\* the loop has captured frames with the worker running and no calibration
C14_Witness ==
    /\ ~config.local_config.has_calibration
    /\ config.local_config.apriltags_enable
    /\ clock >= 2
    /\ frame # None
    /\ wpc = "get"

\* C15: for a frame in which the detector reports no marker the worker's tuple
\* has no camera pose, an empty tag-angle list and no demo result, and no
\* exception is raised.
C15_ZeroMarkers ==
    (call.fn = "apriltag_worker" /\ call.ids = <<>>) =>
        /\ ~call.result.raised
        /\ call.result.value.frame_observations = <<>>
        /\ call.result.value.camera_pose_observation = None
        /\ call.result.value.tag_angle_observations = <<>>
        /\ call.result.value.demo_pose_observation = None

\* a frame without markers processed with a field layout present
C15_Witness ==
    /\ call.fn = "apriltag_worker"
    /\ call.ids = <<>>
    /\ call.tag_layout # None
    /\ call.result = Returned([timestamp |-> 1, frame |-> 1, frame_observations |-> <<>>,
                               camera_pose_observation |-> None,
                               tag_angle_observations |-> <<>>,
                               demo_pose_observation |-> None])

\* C16: the distance calculate_tag_angles reports is the translation norm of
\* the planar solution with the smaller reprojection error, whatever the two
\* errors are (with equal errors, of one of the two).
C16_DistanceOfSmallerError ==
    (call.fn = "calculate_tag_angles" /\ ~call.result.raised /\ call.result.value # None) =>
        LET r  == call.env.ippe[call.frame_observation.corners].value
            n0 == Norm(opencv_translation_to_wpilib(r[1].tvec))
            n1 == Norm(opencv_translation_to_wpilib(r[2].tvec))
        IN  /\ r[1].err.e < r[2].err.e => call.result.value.distance = n0
            /\ r[2].err.e < r[1].err.e => call.result.value.distance = n1
            /\ call.result.value.distance \in {n0, n1}

\* the second solution has the smaller error and a different norm
C16_Witness ==
    /\ call.fn = "calculate_tag_angles"
    /\ ~call.result.raised
    /\ call.result.value # None
    /\ LET r == call.env.ippe[call.frame_observation.corners].value
       IN  /\ r[2].err.e < r[1].err.e
           /\ Norm(opencv_translation_to_wpilib(r[1].tvec)) # Norm(opencv_translation_to_wpilib(r[2].tvec))
           /\ call.result.value.distance = Norm(opencv_translation_to_wpilib(r[2].tvec))

\* the planar solve of cv.solvePnPGeneric(IPPE_SQUARE) on an observation fails:
\* it raises or gives fewer than the two solutions
PlanarSolveFails(frame_observation, env) ==
    \/ env.ippe[frame_observation.corners].raised
    \/ Len(env.ippe[frame_observation.corners].value) < 2

\* the positions of angle_args whose planar solve succeeds
AngleSolved(angle_args, env) ==
    {i \in 1..Len(angle_args) : ~PlanarSolveFails(angle_args[i], env)}

C18_ConversionsAreInverses ==
    call.fn = "translation_conversions" =>
        /\ call.to_field_and_back = call.p
        /\ call.to_vision_and_back = call.p

\* a translation with three different non-zero components, moved by both
\* conversions
C18_Witness ==
    /\ call.fn = "translation_conversions"
    /\ call.p = <<1, 2, -1>>
    /\ call.to_field = <<-1, -1, -2>>
    /\ call.to_vision = <<-2, 1, 1>>
    /\ call.to_field_and_back = call.p
    /\ call.to_vision_and_back = call.p

\* C19: every frame the worker takes from the input channel yields one tuple
\* carrying that frame's timestamp, and no frame is completed twice.
C19_OneBundlePerFrame ==
    /\ [][(wpc = "process" /\ wpc' # "process")
          => (wpc' = "put" /\ sample'.timestamp = sample.timestamp)]_vars
    /\ [](\A a, b \in 1..Len(completed) : a # b => completed[a] # completed[b])

\* what one pass of the worker computes from the frame of a sample with the
\* configuration object config_store
ComputedFrom(taken, config_store) ==
    LET env   == EnvOf(taken.frame.scene)
        calls == WorkerCalls(taken.frame.scene.ids)
    IN  [timestamp |-> taken.timestamp,
         frame |-> taken.frame.id,
         frame_observations |-> detect_fiducials(taken.frame.scene.ids),
         camera_pose_observation |-> solve_camera_pose(calls.pose_args, config_store, env).value,
         tag_angle_observations |-> DropNone(MapAngles(calls.angle_args, env, 1).value),
         demo_pose_observation |-> IF Len(calls.demo_args) > 0
                                   THEN solve_fiducial_pose(calls.demo_args[1], env).value
                                   ELSE None]

\* C20: the timestamp sent to the sink with a tuple is the time at which the
\* tuple's frame was captured, not the time of the iteration that polled it;
\* the camera pose, tag angles and demo pose of a tuple are all computed from
\* the frame handed off with that timestamp, and the tuple reaches the sink
\* as the worker formed it.
C20_TimestampOfTheFrame ==
    /\ [](\A k \in 1..Len(published) : published[k].timestamp_out = published[k].frame)
    /\ [][(wpc = "process" /\ wpc' = "put")
          => (sample.timestamp = sample.frame.id /\ sample' = ComputedFrom(sample, config))]_vars
    /\ [][(wpc = "put" /\ wpc' = "get") => q_out' = Append(q_out, sample)]_vars
    /\ [][(mpc = "poll" /\ published' # published)
          => (/\ Len(q_out) > 0
              /\ published' = Append(published,
                    [timestamp_out |-> q_out[1].timestamp,
                     frame |-> q_out[1].frame,
                     camera_pose_observation |-> q_out[1].camera_pose_observation,
                     tag_angle_observations |-> q_out[1].tag_angle_observations,
                     demo_pose_observation |-> q_out[1].demo_pose_observation]))]_vars

\* a tuple with a tag angle, published in a later iteration than the one that
\* captured its frame
C20_Witness ==
    \E k \in 1..Len(published) :
        /\ published[k].timestamp_out < timestamp
        /\ Len(published[k].tag_angle_observations) = 1
        /\ mpc = "top"

\* the point lists solve_camera_pose passes to cv.solvePnPGeneric on these
\* arguments (lines 122-128 and 150-156), None when it returns before a solve
SolverInvocation(frame_observations, tag_layout) ==
    IF tag_layout = None \/ Len(frame_observations) = 0 THEN None
    ELSE LET observation == frame_observations[1]
             acc == LayoutLoop(tag_layout.tags, 1, observation, None, EmptyPoints)
         IN  IF Len(acc.tag_ids) = 1
             THEN [object_points |-> SquareTemplate, frame_points |-> acc.frame_points]
             ELSE [object_points |-> acc.object_points, frame_points |-> acc.frame_points]

\* C29: whenever solve_camera_pose invokes the pose solver, the object points
\* and the image points it passes are equally many and at least four.
C29_SolverGetsFourOrMorePoints ==
    call.fn = "solve_camera_pose" =>
        LET passed == SolverInvocation(call.frame_observations, call.tag_layout)
        IN  passed # None =>
                /\ Len(passed.object_points) = Len(passed.frame_points)
                /\ Len(passed.frame_points) >= 4

\* the settings Capture.config_changed compares
ComparedSettings(settings) ==
    [camera_id |-> settings.camera_id,
     camera_resolution_width |-> settings.camera_resolution_width,
     camera_resolution_height |-> settings.camera_resolution_height,
     camera_auto_exposure |-> settings.camera_auto_exposure,
     camera_exposure |-> settings.camera_exposure,
     camera_gain |-> settings.camera_gain,
     camera_denoise |-> settings.camera_denoise]

\* C21: a failed capture hands nothing to the worker, publishes nothing, and
\* leaves the loop running for the next iteration.
C21_FailedCaptureRetries ==
    [][(clock' # clock /\ frame' = None)
       => (mpc' = "top" /\ q_in' = q_in /\ published' = published)]_vars

\* C27: a get_frame call that finds a compared setting different from what the
\* previous call saw, with a session open, releases the session and opens one
\* on the new settings.
C27_ChangedSettingsRestartCapture ==
    [][(/\ clock' # clock
        /\ video # None
        /\ last_get_frame # None
        /\ ComparedSettings(last_get_frame.settings) # ComparedSettings(config'.remote_config))
       => (/\ last_get_frame'.released
           /\ last_get_frame'.opened_with = config'.remote_config)]_vars

\* C28: once a captured frame has been handled in calibration mode, the
\* calibration server has been started exactly once, the capture loop hands
\* nothing more to the worker and publishes nothing more, and every later
\* captured frame either goes to the calibration session or ends the process.
C28_CalibrationIsFinal ==
    /\ [](calibration_server_starts <= 1)
    /\ [](was_calibrating => (calibration_server_starts = 1 /\ mpc \in {"top", "exit"}))
    /\ [][was_calibrating
          => (/\ was_calibrating'
              /\ published' = published
              /\ q_in' # q_in => q_in' = Tail(q_in))]_vars
    /\ [][(was_calibrating /\ clock' # clock /\ frame' # None)
          => (\/ /\ mpc' = "top"
                 /\ calibration_frames' = Append(calibration_frames, frame'.id)
              \/ /\ mpc' = "exit"
                 /\ calibration_frames' = calibration_frames)]_vars

\* two frames went to the calibration session, the third ended the process
C28_Witness ==
    /\ was_calibrating
    /\ Len(calibration_frames) = 2
    /\ calibration_server_starts = 1
    /\ mpc = "exit"

\* the number of tuples consumed when the signal before signal k was sent
ConsumedBefore(k) == IF k = 1 THEN 0 ELSE fps_signals[k - 1].consumed

\* C23: every fps signal carries the number of tuples consumed since the
\* signal before it, the counter restarts from zero at a signal, and the
\* hand-off and the consumption are decided by the channels alone.
C23_FpsCountsConsumedBundles ==
    /\ [](\A k \in 1..Len(fps_signals) :
             fps_signals[k].count = fps_signals[k].consumed - ConsumedBefore(k))
    /\ [](apriltags_frame_count = Len(published) - ConsumedBefore(Len(fps_signals) + 1))
    /\ [][(mpc = "handoff" /\ mpc' = "poll") => (Len(q_in) < InMaxSize => q_in' # q_in)]_vars
    /\ [][(mpc = "poll" /\ mpc' = "top") => (Len(q_out) > 0 => published' # published)]_vars

\* a second signal that carries two tuples
C23_Witness ==
    /\ Len(fps_signals) = 2
    /\ fps_signals[1].count = 1
    /\ fps_signals[2].count = 2
    /\ apriltags_frame_count = 0

\* the frames of a sequence of tuples
FramesOf(bundles) == [k \in 1..Len(bundles) |-> bundles[k].frame]

\* C25: no tuple the worker has completed is discarded: the tuples the
\* consumer has received, then the one in the output channel, then the one the
\* worker holds are the completed ones in order, and the worker stays at its
\* put while the channel is occupied.
C25_CompletedBundlesAreKept ==
    /\ [](completed = FramesOf(published) \o FramesOf(q_out)
                      \o (IF wpc = "put" THEN <<sample.frame>> ELSE <<>>))
    /\ [](\A a, b \in 1..Len(published) : a # b => published[a].frame # published[b].frame)
    /\ [][(wpc = "put" /\ Len(q_out) >= OutMaxSize) => (wpc' = "put" /\ sample' = sample)]_vars

\* the worker waits with a completed tuple while the channel holds the one
\* before it and the consumer has received an earlier one
C25_Witness ==
    /\ wpc = "put"
    /\ Len(q_out) = OutMaxSize
    /\ Len(published) >= 1
    /\ Len(completed) = Len(published) + 2

\* C26: get_client_count never raises; it returns 0 until the counter is
\* registered and the registered count afterwards.
C26_ClientCountNeverRaises ==
    call.fn = "get_client_count" =>
        /\ ~call.result.raised
        /\ call.result.value = IF Registered(call.CLIENT_COUNTS, call.uuid)
                               THEN call.CLIENT_COUNTS[call.uuid].count
                               ELSE 0

\* the handlers that have counted themselves in and not yet out
StreamingHandlers ==
    {c \in Clients : handlers[c].pc \in {"streaming", "decrement", "decrement_store"}}

\* C30: the client count of the server is the number of handlers streaming
\* from it, and it is never negative.
C30_ClientCountIsStreamingHandlers ==
    Registered(CLIENT_COUNTS, uuid) =>
        /\ CLIENT_COUNTS[uuid].count = Cardinality(StreamingHandlers)
        /\ CLIENT_COUNTS[uuid].count >= 0

\* C22: the served overlay frame changes only in the worker's step after the
\* put, with a client count above zero, and is then the annotated copy of the
\* frame whose tuple was just put; a frame processed with no client attached
\* leaves it alone.
C22_OverlayOnlyForClients ==
    /\ [][stream_frame' # stream_frame
          => (/\ wpc = "put" /\ wpc' = "get"
              /\ Registered(CLIENT_COUNTS, uuid)
              /\ CLIENT_COUNTS[uuid].count > 0
              /\ q_out' = Append(q_out, sample)
              /\ stream_frame' = [overlay_of |-> sample.frame])]_vars
    /\ [][(wpc = "put" /\ wpc' # "put" /\ get_client_count(uuid, CLIENT_COUNTS) = Returned(0))
          => stream_frame' = stream_frame]_vars

\* the first frame was overlaid for a client, the second was put with no
\* client attached
C22_Witness ==
    /\ Len(completed) = 2
    /\ wpc = "get"
    /\ stream_frame = [overlay_of |-> completed[1]]
    /\ Registered(CLIENT_COUNTS, uuid)
    /\ CLIENT_COUNTS[uuid].count = 0

====
